---- MODULE Spec2Model ----
(***************************************************************************)
(* Model of neverest's account configuration (src/account/config.rs):     *)
(*   - AccountConfig::configure, which replaces undefined keyring entries *)
(*     of the IMAP backends by default ones derived from the account name;*)
(*   - BackendGlobalConfig::into_account_config, which compiles one side  *)
(*     into the pair (backend, engine-facing account configuration);      *)
(*   - the serde schema (deny_unknown_fields, tag = "type") that governs  *)
(*     deserialization of a configuration document.                       *)
(* Option<T> is modelled by a sequence of length at most one.             *)
(***************************************************************************)
EXTENDS Integers, Sequences, FiniteSets, TLC

VARIABLES cfg, initial, last, resolved, doc, parsed

vars == <<cfg, initial, last, resolved, doc, parsed>>

\* ------------------------------------------------------------------ bounds
\* Largest number of secret entries of one authentication configuration.
MaxEntries == 2
\* Number of distinct account names passed to configure / into_account_config.
MaxNames == 2
\* Largest number of tables of one document that carry an unrecognized key.
MaxUnknown == 1

\* ------------------------------------------------------------------ Option
None == <<>>
Some(v) == <<v>>
is_some(o) == Len(o) = 1
unwrap_or_default(o, dflt) == IF is_some(o) THEN o[1] ELSE dflt

Sides == {"left", "right"}
AccountNames == 1..MaxNames

\* ------------------------------------------------------- secrets (keyring)
\* A secret entry is undefined, a user-authored definition (a command), or a
\* keyring entry; the default entry of a slot is derived from the account name.
Undefined == [tag |-> "undefined", name |-> 0, slot |-> 0]
Cmd == [tag |-> "cmd", name |-> 0, slot |-> 0]
KeyringEntry(name, slot) == [tag |-> "keyring", name |-> name, slot |-> slot]
AuthorableSecrets == {Undefined, Cmd}
ImapAuthConfigs == UNION {[1..n -> AuthorableSecrets] : n \in 1..MaxEntries}

\* -------------------------------------------------------------- backends
Imap(auth) == [type |-> "imap", host |-> "imap.example", auth |-> auth]
Maildir == [type |-> "maildir", root_dir |-> "/mail/a"]
Notmuch == [type |-> "notmuch", db_path |-> "/mail/db"]
BackendConfigs == {Imap(a) : a \in ImapAuthConfigs} \cup {Maildir, Notmuch}

\* --------------------------------------------- permission and filter types
FolderSyncPermissionsDefault == [create |-> TRUE, delete |-> TRUE]
FlagSyncPermissionsDefault == [update |-> TRUE]
MessageSyncPermissionsDefault == [create |-> TRUE, delete |-> TRUE]
FolderSyncStrategyDefault == [kind |-> "all", folders |-> {}]
EnvelopeSyncFiltersDefault == [kind |-> "none", folders |-> {}]
FolderSyncStrategies == {FolderSyncStrategyDefault, [kind |-> "include", folders |-> {"INBOX"}]}
EnvelopeSyncFilterSet == {EnvelopeSyncFiltersDefault, [kind |-> "include", folders |-> {"INBOX"}]}

FolderBackendConfigs ==
  { [permissions |-> p] : p \in {FolderSyncPermissionsDefault, [create |-> TRUE, delete |-> FALSE]} }
FlagBackendConfigs == { [permissions |-> [update |-> FALSE]] }
MessageBackendConfigs == { [permissions |-> [create |-> FALSE, delete |-> TRUE]] }

OptionOf(S) == {None} \cup {Some(v) : v \in S}

\* ------------------------------------------------------ BackendGlobalConfig
BackendGlobalConfig(backend, folder, flag, message) ==
  [backend |-> backend, folder |-> folder, flag |-> flag, message |-> message]

\* ------------------------------------------------------------ AccountConfig
FolderConfig == [filter |-> [kind |-> "include", folders |-> {"INBOX"}]]
EnvelopeConfig == [filter |-> [kind |-> "include", folders |-> {"INBOX"}]]
AccountConfig(default, folder, envelope, left, right) ==
  [default |-> default, folder |-> folder, envelope |-> envelope, left |-> left, right |-> right]

\* ------------------------------------------------- credential materialization
\* ImapAuthConfig::replace_undefined_keyring_entries (email crate): walks the
\* secret entries in order; an undefined entry is replaced by the default
\* keyring entry of its slot, built from the account name.  Building the entry
\* of a slot in `bad` fails, which returns the error at once and keeps the
\* entries replaced so far.  A defined entry is not looked at.
FirstFailure(auth, bad) ==
  LET F == {i \in 1..Len(auth) : auth[i] = Undefined /\ i \in bad}
  IN IF F = {} THEN 0 ELSE CHOOSE i \in F : \A j \in F : i <= j

replace_undefined_keyring_entries(auth, name, bad) ==
  LET f == FirstFailure(auth, bad)
  IN [auth |-> [i \in 1..Len(auth) |->
                  IF auth[i] = Undefined /\ (f = 0 \/ i < f)
                  THEN KeyringEntry(name, i) ELSE auth[i]],
      ok |-> f = 0]

\* Variant of ConfigureBackend that resets config.auth before filling it in.
ConfigureBackend_reset(backend, name, bad) ==
  IF backend.type = "imap"
  THEN LET blank == [i \in 1..Len(backend.auth) |-> Undefined]
           r == replace_undefined_keyring_entries(blank, name, bad)
       IN [backend |-> [backend EXCEPT !.auth = r.auth], ok |-> r.ok]
  ELSE [backend |-> backend, ok |-> TRUE]

\* One `match &mut self.<side>.backend` of configure: the Imap arm calls
\* replace_undefined_keyring_entries on config.auth, the wildcard arm is ().
ConfigureBackend(backend, name, bad) ==
  IF backend.type = "imap"
  THEN LET r == replace_undefined_keyring_entries(backend.auth, name, bad)
       IN [backend |-> [backend EXCEPT !.auth = r.auth], ok |-> r.ok]
  ELSE [backend |-> backend, ok |-> TRUE]

\* Variants of configure, each a slip the handler could contain.
\* The second match is a copy of the first: the right side is never visited.
configure_left_twice(self, name, badLeft, badRight) ==
  LET l == replace_undefined_keyring_entries(
             IF self.left.backend.type = "imap" THEN self.left.backend.auth ELSE <<>>, name, badLeft)
      lb == IF self.left.backend.type = "imap"
            THEN [self.left.backend EXCEPT !.auth = l.auth] ELSE self.left.backend
  IN [cfg |-> [self EXCEPT !.left.backend = lb],
      status |-> IF l.ok THEN "ok" ELSE "err",
      attempted |-> {"left"},
      failed |-> IF l.ok THEN "none" ELSE "left"]

\* The configured left backend is written to both sides.
configure_clobber_right(self, name, badLeft, badRight) ==
  LET l == replace_undefined_keyring_entries(
             IF self.left.backend.type = "imap" THEN self.left.backend.auth ELSE <<>>, name, badLeft)
      lb == IF self.left.backend.type = "imap"
            THEN [self.left.backend EXCEPT !.auth = l.auth] ELSE self.left.backend
  IN [cfg |-> [self EXCEPT !.left.backend = lb, !.right.backend = lb],
      status |-> IF l.ok THEN "ok" ELSE "err",
      attempted |-> {"left", "right"},
      failed |-> IF l.ok THEN "none" ELSE "left"]

\* Both sides are attempted and the first error is returned afterwards.
configure_attempt_both(self, name, badLeft, badRight) ==
  LET side(b, bad) ==
        IF b.type = "imap"
        THEN LET r == replace_undefined_keyring_entries(b.auth, name, bad)
             IN [backend |-> [b EXCEPT !.auth = r.auth], ok |-> r.ok]
        ELSE [backend |-> b, ok |-> TRUE]
      l == side(self.left.backend, badLeft)
      r == side(self.right.backend, badRight)
  IN [cfg |-> [self EXCEPT !.left.backend = l.backend, !.right.backend = r.backend],
      status |-> IF l.ok /\ r.ok THEN "ok" ELSE "err",
      attempted |-> {"left", "right"},
      failed |-> IF ~l.ok THEN "left" ELSE IF ~r.ok THEN "right" ELSE "none"]

\* An error restores the configuration the call started from.
configure_rollback(self, name, badLeft, badRight) ==
  LET side(b, bad) ==
        IF b.type = "imap"
        THEN LET r == replace_undefined_keyring_entries(b.auth, name, bad)
             IN [backend |-> [b EXCEPT !.auth = r.auth], ok |-> r.ok]
        ELSE [backend |-> b, ok |-> TRUE]
      l == side(self.left.backend, badLeft)
      r == side(self.right.backend, badRight)
  IN IF ~l.ok
     THEN [cfg |-> self, status |-> "err", attempted |-> {"left"}, failed |-> "left"]
     ELSE [cfg |-> IF r.ok
                   THEN [self EXCEPT !.left.backend = l.backend, !.right.backend = r.backend]
                   ELSE self,
           status |-> IF r.ok THEN "ok" ELSE "err",
           attempted |-> {"left", "right"},
           failed |-> IF r.ok THEN "none" ELSE "right"]

\* AccountConfig::configure: left, then right; `?` returns on the first error.
configure(self, name, badLeft, badRight) ==
  LET l == ConfigureBackend(self.left.backend, name, badLeft)
      r == ConfigureBackend(self.right.backend, name, badRight)
  IN IF ~l.ok
     THEN [cfg |-> [self EXCEPT !.left.backend = l.backend],
           status |-> "err", attempted |-> {"left"}, failed |-> "left"]
     ELSE [cfg |-> [self EXCEPT !.left.backend = l.backend, !.right.backend = r.backend],
           status |-> IF r.ok THEN "ok" ELSE "err",
           attempted |-> {"left", "right"},
           failed |-> IF r.ok THEN "none" ELSE "right"]

\* Inputs of the configure specification.
\* The fields configure does not read are drawn together: all absent, or all
\* present with a non-default value.
ConfigureFrames ==
  { [default |-> None, folder |-> None, envelope |-> None,
     side_folder |-> None, side_flag |-> None, side_message |-> None],
    [default |-> Some(TRUE), folder |-> Some(FolderConfig), envelope |-> Some(EnvelopeConfig),
     side_folder |-> Some([permissions |-> [create |-> TRUE, delete |-> FALSE]]),
     side_flag |-> Some([permissions |-> [update |-> FALSE]]),
     side_message |-> Some([permissions |-> [create |-> FALSE, delete |-> TRUE]])] }
ConfigureAccountConfigs ==
  { AccountConfig(f.default, f.folder, f.envelope,
                  BackendGlobalConfig(l, f.side_folder, f.side_flag, f.side_message),
                  BackendGlobalConfig(r, f.side_folder, None, f.side_message)) :
      f \in ConfigureFrames, l \in BackendConfigs, r \in BackendConfigs }

InitConfigure ==
  /\ cfg \in ConfigureAccountConfigs
  /\ initial = cfg
  /\ last = None
  /\ resolved = [s \in Sides |-> None]
  /\ doc = None
  /\ parsed = None

Configure(name, badLeft, badRight) ==
  LET out == configure(cfg, name, badLeft, badRight)
  IN /\ cfg' = out.cfg
     /\ last' = Some([name |-> name, status |-> out.status, attempted |-> out.attempted,
                      failed |-> out.failed, before |-> cfg])
     /\ UNCHANGED <<initial, resolved, doc, parsed>>

\* The slots whose default entry cannot be built, per side and per call.  The
\* call returns at the first undefined slot that fails, so the outcomes of all
\* sets of failing slots are those of the empty set and of the singletons.
FailingSlots == {{}} \cup {{i} : i \in 1..MaxEntries}

NextConfigure ==
  \E name \in AccountNames, badLeft \in FailingSlots, badRight \in FailingSlots :
    Configure(name, badLeft, badRight)

SpecConfigure == InitConfigure /\ [][NextConfigure]_vars

\* ------------------------------------------------------- configure: claims
HasAuth(backend) == backend.type = "imap"
Call == last[1]
Replaced(auth, name) ==
  [i \in 1..Len(auth) |-> IF auth[i] = Undefined THEN KeyringEntry(name, i) ELSE auth[i]]
UndefinedSlots(backend) ==
  IF HasAuth(backend) THEN {i \in 1..Len(backend.auth) : backend.auth[i] = Undefined} ELSE {}
BadSets == SUBSET (1..MaxEntries)

\* C4: after a successful configure(name), a second configure(name) on the
\* resulting configuration succeeds as well, whatever entry construction would
\* do, and leaves the whole configuration equal to what the first call left.
C4_ConfigureIdempotent ==
  (is_some(last) /\ Call.status = "ok") =>
    \A badLeft \in BadSets, badRight \in BadSets :
      LET again == configure(cfg, Call.name, badLeft, badRight)
      IN again.status = "ok" /\ again.cfg = cfg

\* The latest call was such a second call: it succeeded without changing
\* anything, on a configuration whose undefined entries an earlier call with
\* the same name had replaced.
C4_Witness ==
  /\ is_some(last) /\ Call.status = "ok" /\ Call.before = cfg
  /\ \E s \in Sides : \E i \in UndefinedSlots(initial[s].backend) :
       cfg[s].backend.auth[i] = KeyringEntry(Call.name, i)

\* C5: a side whose backend has no authentication (Maildir, Notmuch) has the
\* same backend after configure as before it, whether the call succeeded or
\* failed and whatever the other side is.
C5_NoAuthBackendUntouched ==
  is_some(last) =>
    \A s \in Sides :
      ~HasAuth(Call.before[s].backend) => cfg[s].backend = Call.before[s].backend

\* A failed call that changed the IMAP side on the right and kept the Maildir
\* side on the left.
C5_Witness ==
  /\ is_some(last) /\ Call.status = "err"
  /\ Call.before.left.backend = Maildir /\ cfg.left.backend = Maildir
  /\ HasAuth(cfg.right.backend) /\ cfg.right.backend # Call.before.right.backend

\* C6: after configure(name) returned success, no IMAP backend on either side
\* has an undefined entry, and every entry that was undefined is the default
\* keyring entry derived from the name.
C6_NoUndefinedAfterSuccess ==
  (is_some(last) /\ Call.status = "ok") =>
    \A s \in Sides :
      HasAuth(cfg[s].backend) =>
        \A i \in 1..Len(cfg[s].backend.auth) :
          /\ cfg[s].backend.auth[i] # Undefined
          /\ i \in UndefinedSlots(Call.before[s].backend) =>
               cfg[s].backend.auth[i] = KeyringEntry(Call.name, i)

C6_Witness ==
  /\ is_some(last) /\ Call.status = "ok"
  /\ UndefinedSlots(Call.before.left.backend) # {}
  /\ UndefinedSlots(Call.before.right.backend) # {}

\* C7 as stated: when entry construction fails for the left backend, the error
\* is returned and the right backend is attempted all the same.
C7_RightStillAttempted ==
  (is_some(last) /\ Call.failed = "left") =>
    (Call.status = "err" /\ "right" \in Call.attempted)

\* C7 as amended: left is handled before right; when entry construction fails
\* for the left backend, the error is returned at once and the right backend is
\* not attempted: it is the same after the call as before, undefined entries
\* included.  The right backend is attempted exactly when the left succeeded.
C7_LeftFailureShortCircuits ==
  is_some(last) =>
    /\ "left" \in Call.attempted
    /\ Call.failed = "left" =>
         /\ Call.status = "err"
         /\ "right" \notin Call.attempted
         /\ cfg.right = Call.before.right
    /\ "right" \in Call.attempted <=> Call.failed # "left"

C7_Witness ==
  /\ is_some(last) /\ Call.failed = "left" /\ Call.status = "err"
  /\ UndefinedSlots(Call.before.right.backend) # {}
  /\ UndefinedSlots(cfg.right.backend) = UndefinedSlots(Call.before.right.backend)

\* C9: when both sides are IMAP backends and the call fails on the right, the
\* error is returned and every formerly undefined entry of the left backend
\* stays replaced by its default entry; nothing is rolled back.
C9_NoRollback ==
  (is_some(last) /\ Call.failed = "right"
     /\ HasAuth(Call.before.left.backend) /\ HasAuth(Call.before.right.backend)) =>
    /\ Call.status = "err"
    /\ cfg.left.backend.auth = Replaced(Call.before.left.backend.auth, Call.name)

\* An error result with a changed configuration.
C9_Witness ==
  /\ is_some(last) /\ Call.failed = "right" /\ Call.status = "err"
  /\ HasAuth(Call.before.left.backend)
  /\ UndefinedSlots(Call.before.left.backend) # {}
  /\ UndefinedSlots(cfg.left.backend) = {}
  /\ cfg # Call.before

\* C10: after any sequence of configure calls, default, folder, envelope, each
\* side's overrides and each side's backend kind are the initial ones; a
\* backend differs from the initial one only in entries that were undefined,
\* each now undefined still or a default keyring entry of its slot; and a call
\* never changes an entry that was defined when it started.
BackendFrame(old, new) ==
  /\ new.type = old.type
  /\ ~HasAuth(old) => new = old
  /\ HasAuth(old) =>
       /\ new.host = old.host
       /\ Len(new.auth) = Len(old.auth)
       /\ \A i \in 1..Len(old.auth) :
            IF old.auth[i] # Undefined
            THEN new.auth[i] = old.auth[i]
            ELSE new.auth[i] \in {Undefined} \cup {KeyringEntry(n, i) : n \in AccountNames}

ConfigFrame(old, new) ==
  /\ new.default = old.default
  /\ new.folder = old.folder
  /\ new.envelope = old.envelope
  /\ \A s \in Sides :
       /\ new[s].folder = old[s].folder
       /\ new[s].flag = old[s].flag
       /\ new[s].message = old[s].message
       /\ BackendFrame(old[s].backend, new[s].backend)

C10_ConfigureFrame ==
  /\ ConfigFrame(initial, cfg)
  /\ is_some(last) => ConfigFrame(Call.before, cfg)

\* A later call with another name kept the entry an earlier call had defined
\* and filled in one that was still undefined.
C10_Witness ==
  /\ is_some(last) /\ Call.name = 2
  /\ \E s \in Sides : \E i \in UndefinedSlots(initial[s].backend) :
       /\ Call.before[s].backend.auth[i] = KeyringEntry(1, i)
       /\ cfg[s].backend.auth[i] = KeyringEntry(1, i)
  /\ \E s \in Sides : \E j \in UndefinedSlots(Call.before[s].backend) :
       cfg[s].backend.auth[j] = KeyringEntry(2, j)
  /\ initial.left.folder # None /\ initial.default # None

\* ------------------------------------------------------ resolution step
\* Variants of into_account_config.
\* The folder override is dropped: folder permissions are always the default.
into_account_config_default_folder(self, name, folder_filter, envelope_filter) ==
  << self.backend,
     [ name |-> name,
       folder |-> Some([sync |-> Some([filter |-> folder_filter,
                                       permissions |-> FolderSyncPermissionsDefault])]),
       envelope |-> Some([sync |-> Some([filter |-> envelope_filter])]),
       flag |-> Some([sync |-> Some([permissions |->
                  unwrap_or_default(IF is_some(self.flag) THEN Some(self.flag[1].permissions) ELSE None,
                                    FlagSyncPermissionsDefault)])]),
       message |-> Some([sync |-> Some([permissions |->
                  unwrap_or_default(IF is_some(self.message) THEN Some(self.message[1].permissions) ELSE None,
                                    MessageSyncPermissionsDefault)])]),
       rest |-> "default" ] >>

\* The backend is handed out with its keyring entries filled in from the name.
into_account_config_materialized(self, name, folder_filter, envelope_filter) ==
  << ConfigureBackend(self.backend, name, {}).backend,
     [ name |-> name,
       folder |-> Some([sync |-> Some([filter |-> folder_filter,
                  permissions |->
                  unwrap_or_default(IF is_some(self.folder) THEN Some(self.folder[1].permissions) ELSE None,
                                    FolderSyncPermissionsDefault)])]),
       envelope |-> Some([sync |-> Some([filter |-> envelope_filter])]),
       flag |-> Some([sync |-> Some([permissions |->
                  unwrap_or_default(IF is_some(self.flag) THEN Some(self.flag[1].permissions) ELSE None,
                                    FlagSyncPermissionsDefault)])]),
       message |-> Some([sync |-> Some([permissions |->
                  unwrap_or_default(IF is_some(self.message) THEN Some(self.message[1].permissions) ELSE None,
                                    MessageSyncPermissionsDefault)])]),
       rest |-> "default" ] >>

\* The envelope sync configuration is left to `..Default::default()`.
into_account_config_default_envelope(self, name, folder_filter, envelope_filter) ==
  << self.backend,
     [ name |-> name,
       folder |-> Some([sync |-> Some([filter |-> folder_filter,
                  permissions |->
                  unwrap_or_default(IF is_some(self.folder) THEN Some(self.folder[1].permissions) ELSE None,
                                    FolderSyncPermissionsDefault)])]),
       envelope |-> Some([sync |-> Some([filter |-> EnvelopeSyncFiltersDefault])]),
       flag |-> Some([sync |-> Some([permissions |->
                  unwrap_or_default(IF is_some(self.flag) THEN Some(self.flag[1].permissions) ELSE None,
                                    FlagSyncPermissionsDefault)])]),
       message |-> Some([sync |-> Some([permissions |->
                  unwrap_or_default(IF is_some(self.message) THEN Some(self.message[1].permissions) ELSE None,
                                    MessageSyncPermissionsDefault)])]),
       rest |-> "default" ] >>

\* Option::map(|c| c.permissions)
map_permissions(o) == IF is_some(o) THEN Some(o[1].permissions) ELSE None

\* BackendGlobalConfig::into_account_config: the pair of self.backend and the
\* engine-facing account configuration; its remaining fields are the defaults.
into_account_config(self, name, folder_filter, envelope_filter) ==
  << self.backend,
     [ name |-> name,
       folder |-> Some([sync |-> Some([
                    filter |-> folder_filter,
                    permissions |-> unwrap_or_default(map_permissions(self.folder),
                                                      FolderSyncPermissionsDefault)])]),
       envelope |-> Some([sync |-> Some([filter |-> envelope_filter])]),
       flag |-> Some([sync |-> Some([
                    permissions |-> unwrap_or_default(map_permissions(self.flag),
                                                      FlagSyncPermissionsDefault)])]),
       message |-> Some([sync |-> Some([
                    permissions |-> unwrap_or_default(map_permissions(self.message),
                                                      MessageSyncPermissionsDefault)])]),
       rest |-> "default" ] >>

\* Inputs of the resolution specification.
ResolveBackends == {Imap(<<Undefined>>), Maildir, Notmuch}
ResolveSides ==
  { BackendGlobalConfig(b, fo, fl, me) :
      b \in ResolveBackends, fo \in OptionOf(FolderBackendConfigs),
      fl \in OptionOf(FlagBackendConfigs), me \in OptionOf(MessageBackendConfigs) }
ResolveAccountConfigs ==
  { AccountConfig(None, Some(FolderConfig), Some(EnvelopeConfig), l, r) :
      l \in ResolveSides, r \in ResolveSides }

InitResolve ==
  /\ cfg \in ResolveAccountConfigs
  /\ initial = cfg
  /\ last = None
  /\ resolved = [s \in Sides |-> None]
  /\ doc = None
  /\ parsed = None

Resolve(side, name, folder_filter, envelope_filter) ==
  LET out == into_account_config(cfg[side], name, folder_filter, envelope_filter)
  IN /\ resolved' = [resolved EXCEPT ![side] =
                       Some([self |-> cfg[side], name |-> name,
                             folder_filter |-> folder_filter,
                             envelope_filter |-> envelope_filter,
                             backend |-> out[1], account |-> out[2]])]
     /\ UNCHANGED <<cfg, initial, last, doc, parsed>>

NextResolve ==
  \E side \in Sides, name \in AccountNames,
     folder_filter \in FolderSyncStrategies, envelope_filter \in EnvelopeSyncFilterSet :
    Resolve(side, name, folder_filter, envelope_filter)

SpecResolve == InitResolve /\ [][NextResolve]_vars

\* ---------------------------------------------------- resolution: claims
Res(s) == resolved[s][1]
FolderPermissions(account) == account.folder[1].sync[1].permissions
FlagPermissions(account) == account.flag[1].sync[1].permissions
MessagePermissions(account) == account.message[1].sync[1].permissions

\* C1: for each of folder, flag and message, the resolved permissions are the
\* permission type's default when the side's override is None and the
\* override's permissions when it is Some; two resolutions whose overrides of
\* one category agree yield the same permissions for it, whatever the others.
C1_PermissionsResolved ==
  /\ \A s \in Sides : is_some(resolved[s]) =>
       LET g == Res(s).self
           a == Res(s).account
       IN /\ g.folder = None => FolderPermissions(a) = FolderSyncPermissionsDefault
          /\ g.folder # None => FolderPermissions(a) = g.folder[1].permissions
          /\ g.flag = None => FlagPermissions(a) = FlagSyncPermissionsDefault
          /\ g.flag # None => FlagPermissions(a) = g.flag[1].permissions
          /\ g.message = None => MessagePermissions(a) = MessageSyncPermissionsDefault
          /\ g.message # None => MessagePermissions(a) = g.message[1].permissions
  /\ (is_some(resolved.left) /\ is_some(resolved.right)) =>
       /\ Res("left").self.folder = Res("right").self.folder =>
            FolderPermissions(Res("left").account) = FolderPermissions(Res("right").account)
       /\ Res("left").self.flag = Res("right").self.flag =>
            FlagPermissions(Res("left").account) = FlagPermissions(Res("right").account)
       /\ Res("left").self.message = Res("right").self.message =>
            MessagePermissions(Res("left").account) = MessagePermissions(Res("right").account)

\* Left resolved without a folder override, right with a restricting one; the
\* two sides differ in the flag override and agree on the message override.
C1_Witness ==
  /\ is_some(resolved.left) /\ is_some(resolved.right)
  /\ cfg.left.folder = None /\ cfg.left.flag # None
  /\ cfg.right.folder = Some([permissions |-> [create |-> TRUE, delete |-> FALSE]])
  /\ cfg.right.flag = None
  /\ cfg.left.message = cfg.right.message /\ cfg.left.message # None
  /\ FolderPermissions(Res("right").account) = [create |-> TRUE, delete |-> FALSE]
  /\ FolderPermissions(Res("left").account) = FolderSyncPermissionsDefault

\* C2: the backend returned as first component equals the side's backend, in
\* kind and in payload, whatever the name, the filters and the overrides.
C2_BackendExtractedUnchanged ==
  \A s \in Sides : is_some(resolved[s]) =>
    /\ Res(s).backend.type = Res(s).self.backend.type
    /\ Res(s).backend = Res(s).self.backend
    /\ Res(s).backend = cfg[s].backend

C2_Witness ==
  /\ is_some(resolved.left) /\ is_some(resolved.right)
  /\ Res("left").backend = Imap(<<Undefined>>)
  /\ Res("right").backend = Maildir
  /\ cfg.left.folder # None /\ Res("left").envelope_filter # EnvelopeSyncFiltersDefault

\* C3: the engine-facing configuration carries the name, the folder filter and
\* the envelope filter of the call; two sides resolved with the same name and
\* filters carry the same name, folder filter and envelope filter.
C3_NameAndFiltersThreaded ==
  /\ \A s \in Sides : is_some(resolved[s]) =>
       /\ Res(s).account.name = Res(s).name
       /\ Res(s).account.folder[1].sync[1].filter = Res(s).folder_filter
       /\ Res(s).account.envelope[1].sync[1].filter = Res(s).envelope_filter
  /\ (/\ is_some(resolved.left) /\ is_some(resolved.right)
      /\ Res("left").name = Res("right").name
      /\ Res("left").folder_filter = Res("right").folder_filter
      /\ Res("left").envelope_filter = Res("right").envelope_filter) =>
       /\ Res("left").account.name = Res("right").account.name
       /\ Res("left").account.folder[1].sync[1].filter
            = Res("right").account.folder[1].sync[1].filter
       /\ Res("left").account.envelope[1].sync[1].filter
            = Res("right").account.envelope[1].sync[1].filter

\* Both sides, of different kinds and overrides, resolved with the same name
\* and the same non-default filters.
C3_Witness ==
  /\ is_some(resolved.left) /\ is_some(resolved.right)
  /\ Res("left").name = Res("right").name
  /\ Res("left").folder_filter = [kind |-> "include", folders |-> {"INBOX"}]
  /\ Res("right").folder_filter = Res("left").folder_filter
  /\ Res("left").envelope_filter = [kind |-> "include", folders |-> {"INBOX"}]
  /\ Res("right").envelope_filter = Res("left").envelope_filter
  /\ cfg.left.backend = Maildir /\ cfg.right.backend = Imap(<<Undefined>>)
  /\ cfg.left.flag # cfg.right.flag

\* ------------------------------------------------------ deserialization
\* A document is a tree of tables.  A table is named by its path; the document
\* gives the keys each present table holds and the value of the `type` key of
\* the two backend tables.
SideTables(s) == {s, s \o ".backend", s \o ".folder", s \o ".flag", s \o ".message"}
Tables == {"account", "folder", "envelope"} \cup SideTables("left") \cup SideTables("right")

\* Field names of the structs, kebab-case, as serde derives them.
AccountConfigFields == {"default", "folder", "envelope", "left", "right"}
FolderConfigFields == {"filter"}
EnvelopeConfigFields == {"filter"}
BackendGlobalConfigFields == {"backend", "folder", "flag", "message"}
FolderBackendConfigFields == {"permissions"}
FlagBackendConfigFields == {"permissions"}
MessageBackendConfigFields == {"permissions"}
\* Variant names of BackendConfig, kebab-case: the values `type` may take.
BackendConfigTags == {"imap", "maildir", "notmuch"}
\* Fields of the variants' payload types (email crate).
PayloadFields(tag) ==
  IF tag = "imap" THEN {"host", "port", "login", "auth"}
  ELSE IF tag = "maildir" THEN {"root-dir"}
  ELSE IF tag = "notmuch" THEN {"db-path"}
  ELSE {}

IsBackendTable(t) == t \in {"left.backend", "right.backend"}
SideOf(t) == IF t \in SideTables("left") THEN "left" ELSE "right"

\* The fields the struct deserialized from table t declares.
KnownFields(t) ==
  IF t = "account" THEN AccountConfigFields
  ELSE IF t = "folder" THEN FolderConfigFields
  ELSE IF t = "envelope" THEN EnvelopeConfigFields
  ELSE IF t \in Sides THEN BackendGlobalConfigFields
  ELSE IF t \in {"left.folder", "right.folder"} THEN FolderBackendConfigFields
  ELSE IF t \in {"left.flag", "right.flag"} THEN FlagBackendConfigFields
  ELSE MessageBackendConfigFields

\* Fields that are neither Option nor #[serde(default)].
RequiredFields(t) ==
  IF t = "account" THEN {"left", "right"}
  ELSE IF t \in Sides THEN {"backend"}
  ELSE {}

\* #[serde(deny_unknown_fields)]: every struct of the file carries it; the
\* BackendConfig enum carries only rename_all and tag = "type".
DenyUnknownFields(t) == ~IsBackendTable(t)

\* Deserialization of one table, its sub-tables apart.  A struct fails on a
\* key it does not declare when it denies unknown fields, and on a missing
\* required field.  The internally tagged enum reads `type`, fails on a tag
\* that names no variant and hands the other keys to the variant's payload
\* type; `payloadDenies` tells whether that type denies unknown fields.
TableOk(d, t, payloadDenies) ==
  LET keys == d.keys[t]
  IN IF IsBackendTable(t)
     THEN /\ "type" \in keys
          /\ d.type[SideOf(t)] \in BackendConfigTags
          /\ payloadDenies[d.type[SideOf(t)]] =>
               (keys \ {"type"}) \subseteq PayloadFields(d.type[SideOf(t)])
     ELSE /\ DenyUnknownFields(t) => keys \subseteq KnownFields(t)
          /\ RequiredFields(t) \subseteq keys

\* AccountConfig::deserialize: every table of the document is visited, and the
\* first error met ends the load.
deserialize(d, payloadDenies) ==
  LET rejected == {t \in DOMAIN d.keys : ~TableOk(d, t, payloadDenies)}
  IN IF rejected = {}
     THEN [status |-> "ok",
           value |-> Some([folder |-> "folder" \in DOMAIN d.keys,
                           envelope |-> "envelope" \in DOMAIN d.keys,
                           left |-> [type |-> d.type.left,
                                     folder |-> "left.folder" \in DOMAIN d.keys,
                                     flag |-> "left.flag" \in DOMAIN d.keys,
                                     message |-> "left.message" \in DOMAIN d.keys],
                           right |-> [type |-> d.type.right,
                                      folder |-> "right.folder" \in DOMAIN d.keys,
                                      flag |-> "right.flag" \in DOMAIN d.keys,
                                      message |-> "right.message" \in DOMAIN d.keys]])]
     ELSE [status |-> "err", value |-> None]

\* Inputs of the deserialization specification: well-formed documents over
\* every choice of optional tables and of backend tags (one of them naming no
\* variant), with an unrecognized key added to at most MaxUnknown tables.
OptionalTables ==
  {"folder", "envelope", "left.folder", "left.flag", "left.message", "right.folder"}
DocumentTags == BackendConfigTags \cup {"pop3"}
BaseKeys(t, present, type) ==
  IF t = "account" THEN {"default", "left", "right"} \cup ({"folder", "envelope"} \cap present)
  ELSE IF t \in {"folder", "envelope"} THEN {"filter"}
  ELSE IF t \in Sides
       THEN {"backend"} \cup {k \in {"folder", "flag", "message"} : (t \o "." \o k) \in present}
  ELSE IF IsBackendTable(t) THEN {"type"} \cup PayloadFields(type[SideOf(t)])
  ELSE {"permissions"}
Document(present, type, unknown) ==
  [keys |-> [t \in (Tables \ OptionalTables) \cup present \cup
                   (IF "right.folder" \in present THEN {"right.flag", "right.message"} ELSE {}) |->
               BaseKeys(t, present \cup (IF "right.folder" \in present
                                         THEN {"right.flag", "right.message"} ELSE {}), type)
                 \cup (IF t \in unknown THEN {"bogus"} ELSE {})],
   type |-> type]
Documents ==
  { Document(present, type, unknown) :
      present \in SUBSET OptionalTables,
      type \in [Sides -> DocumentTags],
      unknown \in {u \in SUBSET Tables : Cardinality(u) <= MaxUnknown} }

InitDeserialize ==
  /\ cfg = AccountConfig(None, None, None,
                         BackendGlobalConfig(Maildir, None, None, None),
                         BackendGlobalConfig(Maildir, None, None, None))
  /\ initial = cfg
  /\ last = None
  /\ resolved = [s \in Sides |-> None]
  /\ doc \in {Some(d) : d \in Documents}
  /\ parsed = None

Deserialize(payloadDenies) ==
  /\ parsed = None
  /\ parsed' = Some(deserialize(doc[1], payloadDenies))
  /\ UNCHANGED <<cfg, initial, last, resolved, doc>>

NextDeserialize ==
  \E payloadDenies \in [BackendConfigTags -> BOOLEAN] : Deserialize(payloadDenies)

SpecDeserialize == InitDeserialize /\ [][NextDeserialize]_vars

\* -------------------------------------------------- deserialization: claims
\* The keys table t of document d may hold: the declared fields of its struct,
\* or `type` and the fields of the tagged variant's payload.
RecognizedKeys(d, t) ==
  IF IsBackendTable(t) THEN {"type"} \cup PayloadFields(d.type[SideOf(t)]) ELSE KnownFields(t)
TablesWithUnknownKey(d) == {t \in DOMAIN d.keys : ~(d.keys[t] \subseteq RecognizedKeys(d, t))}

\* C8: deserializing a document that holds an unrecognized key in any table
\* (AccountConfig, FolderConfig, EnvelopeConfig, BackendGlobalConfig, the tagged
\* BackendConfig union, the Folder/Flag/Message backend overrides) fails.
C8_UnknownKeyRejected ==
  (is_some(parsed) /\ TablesWithUnknownKey(doc[1]) # {}) => parsed[1].status = "err"

====
